---------------------------- MODULE Spec2Model ----------------------------
(***************************************************************************)
(* Model of the HPC job lifecycle code of ln2t_tools:                      *)
(*   src/ln2t_tools/utils/hpc_status.py  (job store, status queries)       *)
(*   src/ln2t_tools/utils/slurm.py       (job submission)                  *)
(*                                                                         *)
(* Python values are tagged records [t, v]; a Python str is a TLA+ string  *)
(* except for the free-form texts that the code searches or splits (the    *)
(* end-reason, the exit-code field), which are sequences of tokens        *)
(* (tag "text").                                                           *)
(* The standard output of a remote command is modelled after tokenising:   *)
(* a sequence of separator-delimited pieces.                               *)
(***************************************************************************)
EXTENDS Integers, Sequences, FiniteSets, TLC

VARIABLES
    jobs_file,      \* ~/.ln2t_tools/hpc_jobs.json : absent, malformed or a JSON document
    lastQ,          \* what the last check_job_status call saw, issued and returned
    everTerminal,   \* job ids for which some check_job_status call returned a terminal status
    lastPut,        \* argument of the last save_job_info call that returned
    before,         \* what the last save_job_info call found: kind of file, job ids in it
    task,           \* the in-process tasks that are inside save_job_info
    lastS,          \* what the last submit_slurm_job call got, issued and returned
    rendered,       \* arguments and result of a generate_slurm_script call
    mon             \* a monitor_job call and the job it watches

vars == <<jobs_file, lastQ, everTerminal, lastPut, before, task, lastS, rendered, mon>>

---------------------------------------------------------------------------
(* Python values *)

PyNone == [t |-> "none", v |-> 0]
PyInt(n) == [t |-> "int", v |-> n]
PyStr(s) == [t |-> "str", v |-> s]
PyText(s) == [t |-> "text", v |-> s]
PyDict(d) == [t |-> "dict", v |-> d]

\* Python truthiness of an Optional[str] / Optional[dict] value
Truthy(x) ==
    CASE x.t = "none" -> FALSE
      [] x.t = "str" -> x.v # ""
      [] x.t = "text" -> x.v # <<>>
      [] x.t = "int" -> x.v # 0
      [] OTHER -> TRUE

\* a variant that matches the marker only at the start (str.startswith)
ContainsAtStart(sub, s) == Len(s) >= Len(sub) /\ SubSeq(s, 1, Len(sub)) = sub

\* `sub in s` on token sequences
Contains(sub, s) ==
    \E i \in 0..(Len(s) - Len(sub)) : SubSeq(s, i + 1, i + Len(sub)) = sub

\* str.upper() on the state vocabulary
upper(s) ==
    CASE s = "running" -> "RUNNING"
      [] s = "failed" -> "FAILED"
      [] s = "completed" -> "COMPLETED"
      [] OTHER -> s

TIME_LIMIT == <<"TIME_LIMIT">>
OUT_OF_MEMORY == <<"OUT_OF_MEMORY">>

---------------------------------------------------------------------------
(* class JobStatus *)

JobStatus ==
    [PENDING |-> "Pending", RUNNING |-> "Running",
     COMPLETED |-> "Completed successfully", FAILED |-> "Failed",
     TIMEOUT |-> "Timed out", CANCELLED |-> "Cancelled", ERROR |-> "Error"]

\* a variant whose running branch lists RUNNING alone
_state_to_status_running_only(state0, reason) ==
    LET state == upper(state0)
        timeLimit == Truthy(reason) /\ Contains(TIME_LIMIT, reason.v)
    IN  IF state \in {"PENDING", "CONFIGURING"} THEN JobStatus.PENDING
        ELSE IF state \in {"RUNNING"} THEN JobStatus.RUNNING
        ELSE IF state = "COMPLETED" THEN JobStatus.COMPLETED
        ELSE IF state \in {"CANCELLED", "CANCELLED+"} THEN
            IF timeLimit THEN JobStatus.TIMEOUT ELSE JobStatus.CANCELLED
        ELSE IF state = "FAILED" \/ state = "NODE_FAIL" THEN
            IF timeLimit THEN JobStatus.TIMEOUT ELSE JobStatus.FAILED
        ELSE JobStatus.ERROR

\* a variant that knows the scheduler's own TIMEOUT state
_state_to_status_with_timeout_state(state0, reason) ==
    LET state == upper(state0)
        timeLimit == Truthy(reason) /\ Contains(TIME_LIMIT, reason.v)
    IN  IF state \in {"PENDING", "CONFIGURING"} THEN JobStatus.PENDING
        ELSE IF state \in {"RUNNING", "STAGE_OUT"} THEN JobStatus.RUNNING
        ELSE IF state = "COMPLETED" THEN JobStatus.COMPLETED
        ELSE IF state = "TIMEOUT" THEN JobStatus.TIMEOUT
        ELSE IF state \in {"CANCELLED", "CANCELLED+"} THEN
            IF timeLimit THEN JobStatus.TIMEOUT ELSE JobStatus.CANCELLED
        ELSE IF state = "FAILED" \/ state = "NODE_FAIL" THEN
            IF timeLimit THEN JobStatus.TIMEOUT ELSE JobStatus.FAILED
        ELSE JobStatus.ERROR

\* _state_to_status(state, reason): reason is PyNone or a PyText
_state_to_status(state0, reason) ==
    LET state == upper(state0)
        timeLimit == Truthy(reason) /\ Contains(TIME_LIMIT, reason.v)
    IN  IF state \in {"PENDING", "CONFIGURING"} THEN JobStatus.PENDING
        ELSE IF state \in {"RUNNING", "STAGE_OUT"} THEN JobStatus.RUNNING
        ELSE IF state = "COMPLETED" THEN JobStatus.COMPLETED
        ELSE IF state \in {"CANCELLED", "CANCELLED+"} THEN
            IF timeLimit THEN JobStatus.TIMEOUT ELSE JobStatus.CANCELLED
        ELSE IF state = "FAILED" \/ state = "NODE_FAIL" THEN
            IF timeLimit THEN JobStatus.TIMEOUT ELSE JobStatus.FAILED
        ELSE JobStatus.ERROR

---------------------------------------------------------------------------
(* class JobInfo *)

FieldNames ==
    {"job_id", "tool", "dataset", "participant", "submit_time", "state",
     "exit_code", "reason", "start_time", "end_time", "elapsed_time", "metadata"}

RequiredFields == {"job_id", "tool", "dataset", "participant", "submit_time"}

EmptyDict == [k \in {} |-> PyNone]

\* the defaults of the dataclass fields
FieldDefault(k) ==
    CASE k = "state" -> PyStr("UNKNOWN")
      [] k = "metadata" -> PyDict(EmptyDict)
      [] OTHER -> PyNone

\* JobInfo(**data) succeeds iff data is a dict that gives every required
\* field and no unknown keyword; otherwise it raises TypeError
CanConstruct(data) ==
    /\ data.t = "dict"
    /\ RequiredFields \subseteq DOMAIN data.v
    /\ DOMAIN data.v \subseteq FieldNames

JobInfo(data) ==
    [k \in FieldNames |-> IF k \in DOMAIN data.v THEN data.v[k] ELSE FieldDefault(k)]

\* a variant that writes the scalar fields and leaves the metadata out
to_dict_without_metadata(job_info) ==
    PyDict([k \in FieldNames \ {"metadata"} |-> job_info[k]])

\* JobInfo.to_dict: dataclasses.asdict, field by field
to_dict(job_info) == PyDict([k \in FieldNames |-> job_info[k]])

\* JobInfo.from_dict
from_dict(data) == JobInfo(data)

\* JobInfo.status_category
status_category(job_info) ==
    LET state == upper(job_info.state.v)
        reason == job_info.reason
    IN  IF state \in {"PENDING", "CONFIGURING"} THEN JobStatus.PENDING
        ELSE IF state \in {"RUNNING", "STAGE_OUT"} THEN JobStatus.RUNNING
        ELSE IF state = "COMPLETED" THEN
            IF job_info.exit_code = PyInt(0) THEN JobStatus.COMPLETED
            ELSE IF Truthy(reason) /\ Contains(TIME_LIMIT, reason.v)
                 THEN JobStatus.TIMEOUT
            ELSE IF Truthy(reason) /\ Contains(OUT_OF_MEMORY, reason.v)
                 THEN JobStatus.ERROR
            ELSE JobStatus.FAILED
        ELSE IF state \in {"CANCELLED", "CANCELLED+"} THEN
            IF Truthy(reason) /\ Contains(TIME_LIMIT, reason.v)
            THEN JobStatus.TIMEOUT ELSE JobStatus.CANCELLED
        ELSE IF state \in {"FAILED", "NODE_FAIL"} THEN JobStatus.FAILED
        ELSE JobStatus.ERROR

---------------------------------------------------------------------------
(* json.dump / json.load *)

\* A JSON value is null, a number, a string or an object.  rep keeps which of
\* the two representations of a Python str the string came from.
JNull == [j |-> "null", rep |-> "", v |-> 0]

RECURSIVE json_dump(_)
json_dump(x) ==
    CASE x.t = "none" -> JNull
      [] x.t = "int" -> [j |-> "number", rep |-> "", v |-> x.v]
      [] x.t \in {"str", "text"} -> [j |-> "string", rep |-> x.t, v |-> x.v]
      [] x.t = "dict" ->
            [j |-> "object", rep |-> "",
             v |-> [k \in DOMAIN x.v |-> json_dump(x.v[k])]]

RECURSIVE json_load(_)
json_load(y) ==
    CASE y.j = "null" -> PyNone
      [] y.j = "number" -> PyInt(y.v)
      [] y.j = "string" -> [t |-> y.rep, v |-> y.v]
      [] y.j = "object" -> PyDict([k \in DOMAIN y.v |-> json_load(y.v[k])])

---------------------------------------------------------------------------
(* The job store: ~/.ln2t_tools/hpc_jobs.json *)

Absent == [kind |-> "absent", doc |-> JNull]
\* text that is not JSON (an empty or cut-off file): json.load raises
\* JSONDecodeError
Malformed == [kind |-> "malformed", doc |-> JNull]
\* bytes that are not text in the file encoding: the read inside json.load
\* raises UnicodeDecodeError, a ValueError that is neither a JSONDecodeError
\* nor an IOError
Undecodable == [kind |-> "undecodable", doc |-> JNull]
JsonFile(doc) == [kind |-> "json", doc |-> doc]

\* the exception that reading the file lets through, "" if none
ReadError(file) == IF file.kind = "undecodable" THEN "UnicodeDecodeError" ELSE ""

PyRaise(exc) == [t |-> "raise", v |-> exc]

\* the `jobs` dict that save_job_info starts from
ExistingJobs(file) ==
    IF file.kind = "absent" THEN EmptyDict
    ELSE IF file.kind = "malformed" THEN EmptyDict     \* JSONDecodeError, warned
    ELSE IF ReadError(file) # "" THEN EmptyDict        \* not reached: raised
    ELSE json_load(file.doc).v

\* the job ids the file holds, as save_job_info reads them
Keys(file) == DOMAIN ExistingJobs(file)

\* what a save_job_info call finds at the backing path
Found(file) == [kind |-> file.kind, ids |-> Keys(file)]

\* a variant that writes the new record alone, without the ones it read
save_job_info_alone(job_info) ==
    LET job_id == job_info.job_id.v
    IN  /\ jobs_file' = JsonFile(json_dump(PyDict([k \in {job_id} |-> to_dict(job_info)])))
        /\ lastPut' = [t |-> "JobInfo", v |-> job_info]
        /\ before' = Found(jobs_file)
        /\ UNCHANGED <<lastQ, everTerminal, task, lastS, rendered, mon>>

\* a variant that adds a record only for a job id the file does not hold
save_job_info_keeping_first(job_info) ==
    LET jobs == ExistingJobs(jobs_file)
        job_id == job_info.job_id.v
        merged == [k \in DOMAIN jobs \cup {job_id} |->
                      IF k \in DOMAIN jobs THEN jobs[k] ELSE to_dict(job_info)]
    IN  /\ jobs_file' = JsonFile(json_dump(PyDict(merged)))
        /\ lastPut' = [t |-> "JobInfo", v |-> job_info]
        /\ before' = Found(jobs_file)
        /\ UNCHANGED <<lastQ, everTerminal, task, lastS, rendered, mon>>

\* save_job_info(job_info): read the file, set jobs[job_id], write the file
save_job_info(job_info) ==
    LET jobs == ExistingJobs(jobs_file)
        job_id == job_info.job_id.v
        merged == [k \in DOMAIN jobs \cup {job_id} |->
                      IF k = job_id THEN to_dict(job_info) ELSE jobs[k]]
    IN  /\ IF ReadError(jobs_file) # ""
           THEN /\ jobs_file' = jobs_file                \* raised at json.load
                /\ lastPut' = PyRaise(ReadError(jobs_file))
           ELSE /\ jobs_file' = JsonFile(json_dump(PyDict(merged)))
                /\ lastPut' = [t |-> "JobInfo", v |-> job_info]
        /\ before' = Found(jobs_file)
        /\ UNCHANGED <<lastQ, everTerminal, task, lastS, rendered, mon>>

\* load_all_jobs: the dict job id -> JobInfo of the records that load
load_all_jobs(file) ==
    IF file.kind = "absent" THEN EmptyDict
    ELSE IF file.kind = "malformed" THEN EmptyDict     \* JSONDecodeError, warned
    ELSE IF ReadError(file) # "" THEN EmptyDict        \* not reached: raised
    ELSE LET jobs_data == json_load(file.doc).v IN
         [job_id \in {k \in DOMAIN jobs_data : CanConstruct(jobs_data[k])} |->
             from_dict(jobs_data[job_id])]

\* get_job_by_id: jobs.get(job_id); an exception that load_all_jobs lets
\* through is raised to the caller
get_job_by_id(file, job_id) ==
    LET jobs == load_all_jobs(file) IN
    IF ReadError(file) # "" THEN PyRaise(ReadError(file))
    ELSE IF job_id \in DOMAIN jobs THEN [t |-> "JobInfo", v |-> jobs[job_id]]
    ELSE PyNone

---------------------------------------------------------------------------
(* subprocess.run(cmd, capture_output=True, text=True, timeout=10) *)

\* A run raises TimeoutExpired ("timeout"), raises another exception
\* ("error"), or completes ("done") with a return code and a standard output.
\* A non-zero return code is ssh's own (255: no connection) or the remote
\* command's (1: the scheduler rejects the id).
Run(kind, returncode, stdout) ==
    [kind |-> kind, returncode |-> returncode, stdout |-> stdout]

TimedOut == Run("timeout", 0, <<>>)
Raised == Run("error", 0, <<>>)
NotRun == Run("notrun", 0, <<>>)
Done(returncode, stdout) == Run("done", returncode, stdout)
\* a run without timeout whose command never completes: the call never returns
\* (with a timeout the same command gives TimedOut)
Hang == Run("hang", 0, <<>>)

\* "55821" is a job that was submitted; "55822" is an id the scheduler never
\* issued, for which neither source has an entry.
JobIds == {"55821", "55822"}
SubmittedIds == {"55821"}

\* states an squeue line may carry
LiveStates ==
    {"PENDING", "CONFIGURING", "RUNNING", "STAGE_OUT", "COMPLETING",
     "SUSPENDED", "COMPLETED", "FAILED", "CANCELLED", "NODE_FAIL"}

\* squeue ends without a line for the job: no answer in 10 s, an exception of
\* subprocess.run, no connection, an id the scheduler rejects, an empty
\* listing, a line that does not parse
SqueueNoEntry ==
    {TimedOut, Raised, Done(255, <<>>), Done(1, <<>>), Done(0, <<>>),
     Done(0, <<"garbage">>)}

\* Outcomes of the squeue command for each job id.  The standard output is
\* the stripped text cut at ':' (what output.split(':') yields); <<>> is the
\* empty output.  A printed timestamp holds ':' itself and is cut too.
SqueueRuns ==
    [job_id \in JobIds |->
        IF job_id \in SubmittedIds
        THEN SqueueNoEntry
             \cup {Done(0, <<job_id, s>>) : s \in LiveStates}
             \cup {Done(0, <<job_id, "RUNNING", "2024-01-01T10", "00", "00", "N/A">>)}
        ELSE SqueueNoEntry]

\* a variant that takes a line only when it carries all four fields
query_squeue_status_four_fields(run) ==
    IF run.kind = "timeout" THEN PyNone
    ELSE IF run.kind = "error" THEN PyNone
    ELSE IF run.returncode # 0 THEN PyNone
    ELSE IF run.stdout = <<>> THEN PyNone
    ELSE LET parts == run.stdout IN
        IF Len(parts) >= 4 THEN
            PyDict([job_id |-> PyStr(parts[1]),
                    state |-> PyStr(parts[2]),
                    start_time |-> PyStr(parts[3]),
                    end_time |-> PyStr(parts[4])])
        ELSE PyNone

\* query_squeue_status: the dict of the live entry, or None
query_squeue_status(run) ==
    IF run.kind = "timeout" THEN PyNone
    ELSE IF run.kind = "error" THEN PyNone
    ELSE IF run.returncode # 0 THEN PyNone
    ELSE IF run.stdout = <<>> THEN PyNone
    ELSE LET parts == run.stdout IN
        IF Len(parts) >= 2 THEN
            PyDict([job_id |-> PyStr(parts[1]),
                    state |-> PyStr(parts[2]),
                    start_time |-> IF Len(parts) > 2 THEN PyStr(parts[3]) ELSE PyNone,
                    end_time |-> IF Len(parts) > 3 THEN PyStr(parts[4]) ELSE PyNone])
        ELSE PyNone

---------------------------------------------------------------------------
(* sacct *)

\* states a sacct line may carry
HistStates ==
    {"COMPLETED", "CANCELLED", "CANCELLED+", "FAILED", "NODE_FAIL",
     "TIMEOUT", "OUT_OF_MEMORY", "PENDING", "RUNNING", "CANCELLED by 1001"}

\* ExitCode fields "code:signal", cut into tokens; <<>> is the empty field
ExitFields == {<<>>, <<"0", ":", "0">>, <<"1", ":", "0">>, <<"9", ":", "0">>}

\* Reason fields, cut into tokens; <<>> is the empty field
ReasonFields ==
    {<<>>, <<"TIME_LIMIT">>, <<"JOB_", "TIME_LIMIT", "_EXCEEDED">>,
     <<"OUT_OF_MEMORY">>, <<"NonZeroExitCode">>}

\* One sacct line cut at '|': JobID, State, ExitCode, Reason, Start, End, Elapsed
SacctLine(job_id, st, ex, rs) ==
    <<job_id, st, ex, rs, "2024-01-01T10:00:00", "2024-01-01T11:00:00", "01:00:00">>

\* the line of the job's batch step, which follows the job's own line
StepLine(job_id) ==
    <<job_id, "COMPLETED", <<"0", ":", "0">>, <<>>, "2024-01-01T10:00:00",
      "2024-01-01T11:00:00", "01:00:00">>

\* sacct ends without a line for the job
SacctNoEntry == {TimedOut, Raised, Done(255, <<>>), Done(0, <<>>)}

\* Outcomes of the sacct command for each job id.  The standard output is the
\* sequence of its lines, each cut at '|'; <<>> is the empty output.  Every
\* state comes with every reason; the exit code, which only the COMPLETED
\* branch of the status derivations reads, varies with COMPLETED.
SacctRuns ==
    [job_id \in JobIds |->
        IF job_id \in SubmittedIds
        THEN SacctNoEntry
             \cup {Done(0, << <<"garbage">> >>),
                   Done(0, << SacctLine(job_id, "FAILED", <<"9", ":", "0">>,
                                        <<"OUT_OF_MEMORY">>),
                              StepLine(job_id) >>)}
             \cup {Done(0, << SacctLine(job_id, "COMPLETED", ex, rs) >>) :
                      ex \in ExitFields, rs \in ReasonFields}
             \cup {Done(0, << SacctLine(job_id, st, <<"9", ":", "0">>, rs) >>) :
                      st \in HistStates \ {"COMPLETED"}, rs \in ReasonFields}
        ELSE SacctNoEntry]

\* text.split(':')[0] on a token sequence
FirstField(text) ==
    IF \E i \in 1..Len(text) : text[i] = ":"
    THEN SubSeq(text, 1, (CHOOSE i \in 1..Len(text) :
                            text[i] = ":" /\ \A k \in 1..(i - 1) : text[k] # ":") - 1)
    ELSE text

\* int(text): defined on the decimal numerals of the model
IsNumeral(text) == Len(text) = 1 /\ text[1] \in {"0", "1", "9"}
int(text) == CASE text[1] = "0" -> 0 [] text[1] = "1" -> 1 [] text[1] = "9" -> 9

\* query_sacct_status: the dict of the job's accounting line, or None
query_sacct_status(run) ==
    IF run.kind = "timeout" THEN PyNone
    ELSE IF run.kind = "error" THEN PyNone
    ELSE IF run.returncode # 0 THEN PyNone
    ELSE IF run.stdout = <<>> THEN PyNone
    ELSE LET parts == run.stdout[1] IN
        IF Len(parts) >= 5 THEN
            IF parts[3] # <<>> /\ ~IsNumeral(FirstField(parts[3]))
            THEN PyNone     \* int() raises ValueError, caught by `except Exception`
            ELSE
            PyDict([job_id |-> PyStr(parts[1]),
                    state |-> PyStr(parts[2]),
                    exit_code |-> IF parts[3] # <<>>
                                  THEN PyInt(int(FirstField(parts[3]))) ELSE PyNone,
                    reason |-> IF parts[4] # <<>> THEN PyText(parts[4]) ELSE PyNone,
                    start_time |-> PyStr(parts[5]),
                    end_time |-> IF Len(parts) > 5 THEN PyStr(parts[6]) ELSE PyNone,
                    elapsed_time |-> IF Len(parts) > 6 THEN PyStr(parts[7]) ELSE PyNone])
        ELSE PyNone

---------------------------------------------------------------------------
(* check_job_status *)

\* a variant that reports the dataclass default state for a job not found
NOT_FOUND_as_unknown == PyDict([state |-> PyStr("UNKNOWN")])

\* the detail returned for a job that neither source knows
NOT_FOUND == PyDict([state |-> PyStr("NOT_FOUND")])

Terminal ==
    {JobStatus.COMPLETED, JobStatus.FAILED, JobStatus.TIMEOUT, JobStatus.CANCELLED}

NoQuery ==
    [job_id |-> "", sq |-> NotRun, sa |-> NotRun, calls |-> <<>>,
     status |-> "", detail |-> PyNone]

\* The call check_job_status(job_id), returning (status, detail).  sq and sa
\* are what the remote end does with the two commands; sacct is run only on
\* the path that reaches it.
check_job_status(job_id) ==
    /\ \E sq \in SqueueRuns[job_id] :
        LET live == query_squeue_status(sq) IN
        IF Truthy(live)
        THEN lastQ' = [job_id |-> job_id, sq |-> sq, sa |-> NotRun,
                       calls |-> <<"squeue">>,
                       status |-> _state_to_status(live.v.state.v, PyNone),
                       detail |-> live]
        ELSE \E sa \in SacctRuns[job_id] :
            LET hist == query_sacct_status(sa) IN
            IF Truthy(hist)
            THEN lastQ' = [job_id |-> job_id, sq |-> sq, sa |-> sa,
                           calls |-> <<"squeue", "sacct">>,
                           status |-> _state_to_status(hist.v.state.v, hist.v.reason),
                           detail |-> hist]
            ELSE lastQ' = [job_id |-> job_id, sq |-> sq, sa |-> sa,
                           calls |-> <<"squeue", "sacct">>,
                           status |-> JobStatus.ERROR,
                           detail |-> NOT_FOUND]
    /\ everTerminal' = IF lastQ'.status \in Terminal
                       THEN everTerminal \cup {job_id} ELSE everTerminal
    /\ UNCHANGED <<jobs_file, lastPut, before, task, lastS, rendered, mon>>

Query == \E job_id \in JobIds : check_job_status(job_id)

---------------------------------------------------------------------------
(* The records callers hand to save_job_info *)

MaxMeta == 1

MetaKeys == {"session", "version"}
MetaValues == {PyInt(1), PyStr("x")}

\* metadata: Dict[str, scalar] with at most MaxMeta entries
Metadatas ==
    UNION {[K -> MetaValues] : K \in {K \in SUBSET MetaKeys : Cardinality(K) <= MaxMeta}}

MakeJob(job_id, state, exit_code, reason, ended, metadata) ==
    [job_id |-> PyStr(job_id), tool |-> PyStr("freesurfer"),
     dataset |-> PyStr("ds001"), participant |-> PyStr("01"),
     submit_time |-> PyStr("2024-01-01T09:00:00"),
     state |-> PyStr(state), exit_code |-> exit_code, reason |-> reason,
     start_time |-> IF ended THEN PyStr("2024-01-01T10:00:00") ELSE PyNone,
     end_time |-> IF ended THEN PyStr("2024-01-01T11:00:00") ELSE PyNone,
     elapsed_time |-> IF ended THEN PyStr("01:00:00") ELSE PyNone,
     metadata |-> PyDict(metadata)]

\* the record of a job that was just submitted
SubmittedJob(job_id) == MakeJob(job_id, "UNKNOWN", PyNone, PyNone, FALSE, EmptyDict)

WellFormedJobs ==
    {MakeJob(job_id, "UNKNOWN", PyNone, PyNone, FALSE, m) :
        job_id \in JobIds, m \in Metadatas}
    \cup {MakeJob(job_id, "COMPLETED", PyInt(0), PyNone, TRUE, m) :
        job_id \in JobIds, m \in Metadatas}
    \cup {MakeJob(job_id, "FAILED", PyInt(9), PyText(OUT_OF_MEMORY), TRUE, m) :
        job_id \in JobIds, m \in Metadatas}

Put == \E job_info \in WellFormedJobs : save_job_info(job_info)

\* a file holding the given dict of job id -> record dict
FileOf(jobs) == JsonFile(json_dump(PyDict(jobs)))

\* a record some other writer left: not loadable as a JobInfo
ForeignRecord == PyDict([job_id |-> PyStr("77"), owner |-> PyStr("other")])

\* what the backing file may hold when the program starts
InitialFiles ==
    {Absent, Malformed, Undecodable, FileOf(EmptyDict),
     FileOf([k \in {"77"} |-> ForeignRecord]),
     FileOf([k \in {"55821"} |-> to_dict(SubmittedJob("55821"))]),
     FileOf([k \in {"55821", "77"} |->
               IF k = "77" THEN ForeignRecord
               ELSE to_dict(MakeJob("55821", "COMPLETED", PyInt(0), PyNone, TRUE,
                                    EmptyDict))])}

---------------------------------------------------------------------------
(* save_job_info step by step, called from several in-process tasks *)

Tasks == {"t1", "t2"}

\* a task that has not called save_job_info
IdleTask == [pc |-> "idle", job_info |-> PyNone, jobs |-> EmptyDict]

NoTasks == [t \in Tasks |-> IdleTask]

\* the records the tasks save
TaskJobs ==
    {SubmittedJob(job_id) : job_id \in JobIds}
    \cup {MakeJob("55821", "COMPLETED", PyInt(0), PyNone, TRUE, EmptyDict)}

\* the process is alive: no crash has happened
Alive == \A t \in Tasks : task[t].pc # "crashed"

\* lines 122-136: read the file and set jobs[job_id] in the task's own dict
begin_save(t, job_info) ==
    LET jobs == ExistingJobs(jobs_file)
        job_id == job_info.job_id.v
        merged == [k \in DOMAIN jobs \cup {job_id} |->
                      IF k = job_id THEN to_dict(job_info) ELSE jobs[k]]
    IN  /\ Alive /\ task[t].pc = "idle"
        /\ task' = [task EXCEPT ![t] =
                       IF ReadError(jobs_file) # ""
                       THEN [pc |-> "raised", job_info |-> job_info, jobs |-> EmptyDict]
                       ELSE [pc |-> "merged", job_info |-> job_info, jobs |-> merged]]
        /\ before' = Found(jobs_file)
        /\ UNCHANGED <<jobs_file, lastPut, lastQ, everTerminal, lastS, rendered, mon>>

\* line 140: open(jobs_file, 'w') leaves an empty file, which is not JSON
open_for_write(t) ==
    /\ Alive /\ task[t].pc = "merged"
    /\ task' = [task EXCEPT ![t].pc = "open"]
    /\ jobs_file' = Malformed
    /\ UNCHANGED <<lastPut, before, lastQ, everTerminal, lastS, rendered, mon>>

\* line 141 and the end of the with block: the task's dict is the file
dump(t) ==
    /\ Alive /\ task[t].pc = "open"
    /\ task' = [task EXCEPT ![t].pc = "done"]
    /\ jobs_file' = JsonFile(json_dump(PyDict(task[t].jobs)))
    /\ lastPut' = [t |-> "JobInfo", v |-> task[t].job_info]
    /\ UNCHANGED <<before, lastQ, everTerminal, lastS, rendered, mon>>

\* lines 141-143: the write raises IOError part-way (disk full); the error
\* is logged as a warning and the call returns, the file is left cut off
write_fails(t) ==
    /\ Alive /\ task[t].pc = "open"
    /\ task' = [task EXCEPT ![t].pc = "warned"]
    /\ jobs_file' = Malformed
    /\ UNCHANGED <<lastPut, before, lastQ, everTerminal, lastS, rendered, mon>>

\* the process dies while a task is inside save_job_info
crash ==
    /\ Alive /\ \E t \in Tasks : task[t].pc \in {"merged", "open"}
    /\ task' = [t \in Tasks |->
                   IF task[t].pc \in {"merged", "open"}
                   THEN [task[t] EXCEPT !.pc = "crashed"] ELSE task[t]]
    /\ UNCHANGED <<jobs_file, lastPut, before, lastQ, everTerminal, lastS, rendered, mon>>

---------------------------------------------------------------------------
(* submit_slurm_job *)

\* the largest GPU count requested
MaxGpus == 2

\* str(x) as an f-string embeds it
py_str(x) ==
    CASE x.t = "none" -> "None"
      [] x.t = "int" -> ToString(x.v)
      [] OTHER -> x.v

\* the argparse namespace of a complete request
BaseArgs ==
    [slurm |-> TRUE, slurm_user |-> PyStr("arovai"), slurm_host |-> PyStr("lemaitre4"),
     slurm_apptainer_dir |-> PyStr("/apps"), slurm_rawdata |-> PyNone,
     slurm_derivatives |-> PyNone, slurm_partition |-> PyNone,
     slurm_time |-> PyStr("4:00:00"), slurm_mem |-> PyStr("16G"),
     slurm_gpus |-> PyInt(0), no_gpu |-> TRUE]

\* the requests: the complete one, and the ones that lack one or two options
SubmitArgs ==
    {BaseArgs,
     [BaseArgs EXCEPT !.slurm_user = PyNone],
     [BaseArgs EXCEPT !.slurm_apptainer_dir = PyNone],
     [BaseArgs EXCEPT !.slurm_time = PyNone],
     [BaseArgs EXCEPT !.slurm_mem = PyNone],
     [BaseArgs EXCEPT !.slurm_time = PyNone, !.slurm_mem = PyNone]}

SubmitTools == {"meld_graph", "freesurfer"}

\* validate_slurm_config: the exception it raises, "" if none
validate_slurm_config(args) ==
    IF args.slurm
    THEN LET required_args ==
                 [k \in {"--slurm-user", "--slurm-apptainer-dir"} |->
                     IF k = "--slurm-user" THEN args.slurm_user
                     ELSE args.slurm_apptainer_dir]
             missing == {k \in DOMAIN required_args : ~Truthy(required_args[k])}
         IN  IF missing # {} THEN "ValueError" ELSE ""
    ELSE ""

\* a variant that goes on whatever the echo command gave
test_ssh_connection_unchecked(run) == TRUE

\* test_ssh_connection: ssh ... echo connected, timeout 15
test_ssh_connection(run) ==
    IF run.kind = "timeout" THEN FALSE
    ELSE IF run.kind = "error" THEN FALSE
    ELSE run.returncode = 0 /\ \E i \in 1..Len(run.stdout) : run.stdout[i] = "connected"

\* a variant that writes the partition line whether or not one was given
generate_slurm_script_with_partition_line(tool, participant_label, dataset, args) ==
    IF tool # "meld_graph" THEN PyRaise("NotImplementedError")
    ELSE [t |-> "script",
          v |-> << <<"--job-name", <<tool, dataset, participant_label>> >>,
                   <<"--partition", py_str(args.slurm_partition)>>,
                   <<"--time", py_str(args.slurm_time)>>,
                   <<"--mem", py_str(args.slurm_mem)>> >>
                \o (IF ~args.no_gpu
                    THEN << <<"--gres", <<"gpu", py_str(args.slurm_gpus)>> >> >>
                    ELSE << >>)]

\* generate_slurm_script: the #SBATCH header of the script, as a sequence of
\* <<option, value>> lines, or the exception raised
generate_slurm_script(tool, participant_label, dataset, args) ==
    IF tool # "meld_graph" THEN PyRaise("NotImplementedError")
    ELSE [t |-> "script",
          v |-> << <<"--job-name", <<tool, dataset, participant_label>> >> >>
                \o (IF Truthy(args.slurm_partition)
                    THEN << <<"--partition", py_str(args.slurm_partition)>> >>
                    ELSE << >>)
                \o << <<"--time", py_str(args.slurm_time)>>,
                      <<"--mem", py_str(args.slurm_mem)>> >>
                \o (IF ~args.no_gpu
                    THEN << <<"--gres", <<"gpu", py_str(args.slurm_gpus)>> >> >>
                    ELSE << >>)]

\* str.isdigit on the tokens of the sbatch output
isdigit(tok) == tok \in {"55821", "55822"}

RECURSIVE split(_)
\* output.split(): the whitespace-delimited tokens of all lines
split(lines) == IF lines = << >> THEN << >> ELSE Head(lines) \o split(Tail(lines))

\* lines 580-613: the job id read from the sbatch output, or None
parse_job_id(output) ==
    LET parts == split(output) IN
    IF \E n \in 1..Len(output) : Contains(<<"Submitted", "batch", "job">>, output[n])
    THEN IF Len(parts) >= 4
         THEN IF isdigit(parts[4]) THEN PyStr(parts[4]) ELSE PyNone
         ELSE PyNone
    ELSE PyNone

NoSubmit ==
    [submitted |-> FALSE, tool |-> "", args |-> BaseArgs, probe |-> NotRun,
     mkdir |-> NotRun, scp |-> NotRun, sbatch |-> NotRun, calls |-> << >>,
     script |-> PyNone, result |-> PyNone]

\* no generate_slurm_script call
NoRender == [tool |-> "", args |-> BaseArgs, script |-> PyNone]

\* the requests handed to generate_slurm_script: partition absent, empty or
\* given; GPUs refused (--no-gpu) or requested with a count
RenderArgs ==
    {[BaseArgs EXCEPT !.slurm_partition = part, !.no_gpu = no_gpu,
                      !.slurm_gpus = PyInt(gpus), !.slurm_time = time]
        : part \in {PyNone, PyStr(""), PyStr("batch"), PyStr("gpu")},
          no_gpu \in BOOLEAN, gpus \in 0..MaxGpus,
          time \in {PyStr("4:00:00"), PyStr("1-00:00:00")}}

\* one generate_slurm_script(tool, "01", "ds001", args) call
Render ==
    /\ rendered.script = PyNone
    /\ rendered' = [rendered EXCEPT
                       !.script = generate_slurm_script(rendered.tool, "01", "ds001",
                                                        rendered.args)]
    /\ UNCHANGED <<jobs_file, lastQ, everTerminal, lastPut, before, task, lastS, mon>>

---------------------------------------------------------------------------
(* monitor_job *)

\* the polls counted before the counter stops
MaxPolls == 3

\* the header line squeue prints before the job lines
SqueueHeader == <<"STATE", "TIME", "TIME_LEFT">>

\* what the job ends as when it leaves the live queue
JobOutcomes == {"COMPLETED", "FAILED", "TIMEOUT", "CANCELLED"}

\* outcomes of `squeue -j <id> --format='%T|%M|%L'`, timeout 10: lines of
\* pipe-delimited pieces
MonitorRuns(inQueue) ==
    IF inQueue
    THEN {Done(0, <<SqueueHeader, <<st, "5:00", "3:55:00">> >>) :
              st \in {"PENDING", "RUNNING", "COMPLETING"}}
         \cup {Done(0, <<SqueueHeader, <<"RUNNING", "5:00">> >>),
               TimedOut, Raised, Done(255, << >>)}
    ELSE {Done(0, <<SqueueHeader>>), Done(1, << >>), TimedOut, Done(255, << >>)}

\* slurm.check_job_status: the dict of the job's line, or None
slurm_check_job_status(run) ==
    IF run.kind \in {"timeout", "error"} THEN PyNone       \* except Exception
    ELSE IF run.returncode = 0
         THEN LET lines == run.stdout IN
              IF Len(lines) > 1
              THEN IF Len(lines[2]) = 3
                   THEN PyDict([state |-> PyStr(lines[2][1]),
                                time_used |-> PyStr(lines[2][2]),
                                time_left |-> PyStr(lines[2][3])])
                   ELSE PyNone                              \* ValueError, caught
              ELSE PyNone
         ELSE PyNone

NoMonitor ==
    [pc |-> "none", inQueue |-> FALSE, outcome |-> "", run |-> NotRun,
     status |-> PyNone, polls |-> 0, cmds |-> {}, result |-> "", cancelled |-> FALSE]

\* a variant that returns after its first poll, whatever the poll found
monitor_poll_once ==
    /\ mon.pc = "poll"
    /\ \E run \in MonitorRuns(mon.inQueue) :
           mon' = [mon EXCEPT !.run = run, !.status = slurm_check_job_status(run),
                              !.polls = IF mon.polls < MaxPolls THEN mon.polls + 1
                                        ELSE MaxPolls,
                              !.cmds = mon.cmds \cup {"squeue"},
                              !.pc = "returned", !.result = "True"]
    /\ UNCHANGED <<jobs_file, lastQ, everTerminal, lastPut, before, task, lastS, rendered>>

\* lines 689-700: one pass of the loop up to time.sleep
monitor_poll ==
    /\ mon.pc = "poll"
    /\ \E run \in MonitorRuns(mon.inQueue) :
           LET status == slurm_check_job_status(run) IN
           mon' = [mon EXCEPT !.run = run, !.status = status,
                              !.polls = IF mon.polls < MaxPolls THEN mon.polls + 1
                                        ELSE MaxPolls,
                              !.cmds = mon.cmds \cup {"squeue"},
                              !.pc = IF status = PyNone THEN "returned" ELSE "sleep",
                              !.result = IF status = PyNone THEN "True" ELSE ""]
    /\ UNCHANGED <<jobs_file, lastQ, everTerminal, lastPut, before, task, lastS, rendered>>

\* line 702: time.sleep(poll_interval) returns
monitor_wake ==
    /\ mon.pc = "sleep"
    /\ mon' = [mon EXCEPT !.pc = "poll"]
    /\ UNCHANGED <<jobs_file, lastQ, everTerminal, lastPut, before, task, lastS, rendered>>

\* a variant that also cancels the job on the cluster
monitor_interrupt_cancelling_job ==
    /\ mon.pc \in {"poll", "sleep"}
    /\ mon' = [mon EXCEPT !.pc = "returned", !.result = "False", !.cancelled = TRUE,
                          !.cmds = mon.cmds \cup {"scancel"}]
    /\ UNCHANGED <<jobs_file, lastQ, everTerminal, lastPut, before, task, lastS, rendered>>

\* lines 704-707: KeyboardInterrupt
monitor_interrupt ==
    /\ mon.pc \in {"poll", "sleep"}
    /\ mon' = [mon EXCEPT !.pc = "returned", !.result = "False", !.cancelled = TRUE]
    /\ UNCHANGED <<jobs_file, lastQ, everTerminal, lastPut, before, task, lastS, rendered>>

\* the cluster: the job ends and leaves the live queue
job_leaves_queue ==
    /\ mon.pc # "none" /\ mon.inQueue
    /\ \E outcome \in JobOutcomes :
           mon' = [mon EXCEPT !.inQueue = FALSE, !.outcome = outcome]
    /\ UNCHANGED <<jobs_file, lastQ, everTerminal, lastPut, before, task, lastS, rendered>>

---------------------------------------------------------------------------
(* submit_slurm_job: the commands and the call *)

\* outcomes of `ssh ... echo connected`
ProbeRuns == {Done(0, <<"connected">>), Done(255, << >>), TimedOut, Raised}

\* outcomes of `ssh ... mkdir -p` and of scp: done, or a non-zero return code
MkdirRuns == {Done(0, << >>), Done(255, << >>), Hang}
ScpRuns == {Done(0, << >>), Done(1, << >>), Hang}

\* what sbatch prints: lines of whitespace-delimited tokens
SbatchOutputs ==
    {<< <<"Submitted", "batch", "job", "55821">> >>,
     << >>,
     << <<"sbatch:", "error:", "invalid", "partition">> >>,
     << <<"Submitted", "batch", "job">> >>,
     << <<"Submitted", "batch", "job", "abc">> >>,
     << <<"Submitted", "batch", "job", "55821", "on", "cluster", "lemaitre4">> >>,
     << <<"sbatch:", "warning:", "x">>, <<"Submitted", "batch", "job", "55821">> >>,
     << <<"Submitted", "batch", "job", "55821">>, <<"sbatch:", "warning:", "x">> >>}

SbatchRuns == {Done(0, out) : out \in SbatchOutputs} \cup {Done(1, << >>), Hang}

\* the call is still inside subprocess.run
PyBlocked == [t |-> "blocked", v |-> ""]

\* the steps of a submission, in the order of the code
SubmitSteps == <<"validate", "probe", "render", "mkdir", "copy", "sbatch">>

\* what submit_slurm_job does and returns: the steps it takes and its result
SubmitOutcome(tool, args, probe, mkdir, scp, sbatch) ==
    LET script == generate_slurm_script(tool, "01", "ds001", args)
        stop(n, result) == [calls |-> SubSeq(SubmitSteps, 1, n), result |-> result]
    IN  IF validate_slurm_config(args) # ""
        THEN stop(1, PyRaise(validate_slurm_config(args)))
        ELSE IF ~test_ssh_connection(probe) THEN stop(2, PyNone)
        ELSE IF script.t = "raise" THEN stop(3, script)
        ELSE IF mkdir.kind = "hang" THEN stop(4, PyBlocked)  \* no timeout= given
        ELSE IF mkdir.returncode # 0 THEN stop(4, PyNone)    \* CalledProcessError
        ELSE IF scp.kind = "hang" THEN stop(5, PyBlocked)
        ELSE IF scp.returncode # 0 THEN stop(5, PyNone)      \* CalledProcessError
        ELSE IF sbatch.kind = "hang" THEN stop(6, PyBlocked)
        ELSE IF sbatch.returncode # 0 THEN stop(6, PyNone)   \* CalledProcessError
        ELSE stop(6, parse_job_id(sbatch.stdout))

\* a variant that records the job in the store before it is submitted
submit_slurm_job_recording_first(tool, args, probe, mkdir, scp, sbatch) ==
    LET o == SubmitOutcome(tool, args, probe, mkdir, scp, sbatch)
        issued(step, run) == IF \E i \in 1..Len(o.calls) : o.calls[i] = step
                             THEN run ELSE NotRun
        jobs == ExistingJobs(jobs_file)
    IN  /\ lastS' = [submitted |-> TRUE, tool |-> tool, args |-> args,
                     probe |-> issued("probe", probe), mkdir |-> issued("mkdir", mkdir),
                     scp |-> issued("copy", scp), sbatch |-> issued("sbatch", sbatch),
                     calls |-> o.calls,
                     script |-> IF Len(o.calls) >= 3
                                THEN generate_slurm_script(tool, "01", "ds001", args)
                                ELSE PyNone,
                     result |-> o.result]
        /\ jobs_file' = FileOf([k \in DOMAIN jobs \cup {"0"} |->
                                  IF k = "0" THEN to_dict(SubmittedJob("0")) ELSE jobs[k]])
        /\ UNCHANGED <<lastQ, everTerminal, lastPut, before, task, rendered, mon>>

\* submit_slurm_job(tool, "01", "ds001", args), with the outcomes of the four
\* commands it may run
submit_slurm_job(tool, args, probe, mkdir, scp, sbatch) ==
    LET o == SubmitOutcome(tool, args, probe, mkdir, scp, sbatch)
        issued(step, run) == IF \E i \in 1..Len(o.calls) : o.calls[i] = step
                             THEN run ELSE NotRun
    IN  /\ lastS' = [submitted |-> TRUE, tool |-> tool, args |-> args,
                     probe |-> issued("probe", probe), mkdir |-> issued("mkdir", mkdir),
                     scp |-> issued("copy", scp), sbatch |-> issued("sbatch", sbatch),
                     calls |-> o.calls,
                     script |-> IF Len(o.calls) >= 3
                                THEN generate_slurm_script(tool, "01", "ds001", args)
                                ELSE PyNone,
                     result |-> o.result]
        /\ UNCHANGED <<jobs_file, lastQ, everTerminal, lastPut, before, task, rendered, mon>>

\* a call for any request; a command has an outcome only if the call gets
\* to run it
Submit ==
    \E tool \in SubmitTools, args \in SubmitArgs, probe \in ProbeRuns :
      LET ok == Done(0, << >>)
          remote == Len(SubmitOutcome(tool, args, probe, ok, ok, ok).calls) = 6
      IN  \E mkdir \in IF remote THEN MkdirRuns ELSE {NotRun} :
          \E scp \in IF remote /\ mkdir = ok THEN ScpRuns ELSE {NotRun} :
          \E sbatch \in IF remote /\ mkdir = ok /\ scp = ok THEN SbatchRuns ELSE {NotRun} :
              submit_slurm_job(tool, args, probe, mkdir, scp, sbatch)

---------------------------------------------------------------------------
(* Specifications *)

\* Status queries for jobs of which "55821" was recorded at submission
Init ==
    /\ jobs_file = FileOf([k \in {"55821"} |-> to_dict(SubmittedJob("55821"))])
    /\ lastQ = NoQuery
    /\ everTerminal = {}
    /\ lastPut = PyNone
    /\ before = Found(Absent)
    /\ task = NoTasks
    /\ lastS = NoSubmit
    /\ rendered = NoRender
    /\ mon = NoMonitor

Next == Query

Spec == Init /\ [][Next]_vars

\* The job store under any sequence of save_job_info calls
InitStore ==
    /\ jobs_file \in InitialFiles
    /\ lastQ = NoQuery
    /\ everTerminal = {}
    /\ lastPut = PyNone
    /\ before = Found(Absent)
    /\ task = NoTasks
    /\ lastS = NoSubmit
    /\ rendered = NoRender
    /\ mon = NoMonitor

NextStore == Put

SpecStore == InitStore /\ [][NextStore]_vars

\* save_job_info called from two in-process tasks, with crashes and write
\* failures
InitTasks == InitStore

NextTasks ==
    \/ \E t \in Tasks, job_info \in TaskJobs : begin_save(t, job_info)
    \/ \E t \in Tasks : open_for_write(t)
    \/ \E t \in Tasks : dump(t)
    \/ \E t \in Tasks : write_fails(t)
    \/ crash

SpecTasks == InitTasks /\ [][NextTasks]_vars

\* Submissions, on an empty store and on one that holds a record
InitSubmit ==
    /\ jobs_file \in {Absent, FileOf([k \in {"55800"} |-> to_dict(SubmittedJob("55800"))])}
    /\ lastQ = NoQuery
    /\ everTerminal = {}
    /\ lastPut = PyNone
    /\ before = Found(Absent)
    /\ task = NoTasks
    /\ lastS = NoSubmit
    /\ rendered = NoRender
    /\ mon = NoMonitor

NextSubmit == Submit

SpecSubmit == InitSubmit /\ [][NextSubmit]_vars

\* monitor_job("55821", ...) while the store says the job is running
InitMonitor ==
    /\ jobs_file = FileOf([k \in {"55821"} |->
                             to_dict(MakeJob("55821", "RUNNING", PyNone, PyNone, FALSE,
                                             EmptyDict))])
    /\ lastQ = NoQuery
    /\ everTerminal = {}
    /\ lastPut = PyNone
    /\ before = Found(Absent)
    /\ task = NoTasks
    /\ lastS = NoSubmit
    /\ rendered = NoRender
    /\ mon = [NoMonitor EXCEPT !.pc = "poll", !.inQueue = TRUE]

NextMonitor ==
    \/ monitor_poll
    \/ monitor_wake
    \/ monitor_interrupt
    \/ job_leaves_queue

SpecMonitor == InitMonitor /\ [][NextMonitor]_vars

\* the same, as long as the loop keeps running: a poll that is due is taken
\* and a sleep ends
SpecMonitorFair ==
    SpecMonitor /\ WF_vars(monitor_poll) /\ WF_vars(monitor_wake)

\* Script rendering for every request
InitRender ==
    /\ jobs_file = Absent
    /\ lastQ = NoQuery
    /\ everTerminal = {}
    /\ lastPut = PyNone
    /\ before = Found(Absent)
    /\ task = NoTasks
    /\ lastS = NoSubmit
    /\ mon = NoMonitor
    /\ rendered \in [tool : SubmitTools, args : RenderArgs, script : {PyNone}]

NextRender == Render

SpecRender == InitRender /\ [][NextRender]_vars

---------------------------------------------------------------------------
(* What a finished check_job_status call saw, read from the raw outputs *)

Queried == lastQ.job_id # ""

\* the command printed a line for the job
LiveLine(run) == run.kind = "done" /\ run.returncode = 0 /\ Len(run.stdout) >= 2
HistLine(run) ==
    run.kind = "done" /\ run.returncode = 0 /\ run.stdout # <<>>
    /\ Len(run.stdout[1]) >= 5

\* the command completed and the scheduler had no entry for the job
SourceEmpty(run) ==
    run.kind = "done" /\ run.returncode \in {0, 1} /\ run.stdout = <<>>

\* the command did not complete: timeout, exception, no ssh connection
TransportFailed(run) ==
    run.kind \in {"timeout", "error"} \/ (run.kind = "done" /\ run.returncode = 255)

HasToken(text, tok) == \E i \in 1..Len(text) : text[i] = tok

HistState == lastQ.sa.stdout[1][2]
HistExit == lastQ.sa.stdout[1][3]
HistReason == lastQ.sa.stdout[1][4]

ReportsNotFound == lastQ.detail.v.state.v = "NOT_FOUND"

\* the record the store holds for the job of the last query
Stored == get_job_by_id(jobs_file, lastQ.job_id)

---------------------------------------------------------------------------
(* Claims *)

\* C1: whenever squeue prints an entry for the job, check_job_status returns
\* the status of that entry with the entry as detail and never runs sacct;
\* a live state RUNNING yields Running.
C1_LiveWins ==
    (Queried /\ LiveLine(lastQ.sq)) =>
        /\ lastQ.calls = <<"squeue">>
        /\ lastQ.sa = NotRun
        /\ lastQ.detail.v.state.v = lastQ.sq.stdout[2]
        /\ (lastQ.sq.stdout[2] = "RUNNING" => lastQ.status = "Running")

C1_Witness ==
    /\ Queried /\ LiveLine(lastQ.sq) /\ lastQ.sq.stdout[2] = "RUNNING"
    /\ lastQ.status = "Running" /\ lastQ.calls = <<"squeue">>

\* C2: with no live entry and historical state COMPLETED, the status is
\* Completed only if the exit code is zero; with a non-zero exit code it is
\* TimedOut if the reason holds the time-limit marker, Error if it holds the
\* out-of-memory marker, Failed otherwise.
C2_CompletedDemoted ==
    (Queried /\ ~LiveLine(lastQ.sq) /\ HistLine(lastQ.sa)
        /\ HistState = "COMPLETED" /\ HistExit # <<>>) =>
        /\ (lastQ.status = "Completed successfully" => HistExit[1] = "0")
        /\ (HistExit[1] # "0" =>
               lastQ.status = IF HasToken(HistReason, "TIME_LIMIT") THEN "Timed out"
                              ELSE IF HasToken(HistReason, "OUT_OF_MEMORY") THEN "Error"
                              ELSE "Failed")

\* C3: when both commands complete and neither source has an entry, the
\* result is Error with detail {state: NOT_FOUND}.
C3_NotFound ==
    (Queried /\ SourceEmpty(lastQ.sq) /\ SourceEmpty(lastQ.sa)) =>
        /\ lastQ.status = "Error"
        /\ DOMAIN lastQ.detail.v = {"state"}
        /\ lastQ.detail.v.state = PyStr("NOT_FOUND")

C3_Witness ==
    /\ Queried /\ lastQ.job_id = "55822"
    /\ lastQ.sq = Done(1, <<>>) /\ lastQ.sa = Done(0, <<>>)
    /\ lastQ.status = "Error" /\ ReportsNotFound

\* C4: NOT_FOUND is reported only when both commands completed without an
\* entry, and a transport failure of either command is reported as an error
\* that is not NOT_FOUND.
C4_TransportFailuresSurface ==
    Queried =>
        /\ (TransportFailed(lastQ.sq) \/ TransportFailed(lastQ.sa)) =>
               (lastQ.status = "Error" /\ ~ReportsNotFound)
        /\ ReportsNotFound => (SourceEmpty(lastQ.sq) /\ SourceEmpty(lastQ.sa))

\* C5: once some call returned Completed, Failed, TimedOut or Cancelled for a
\* job id, no later call for that id returns Pending or Running.
C5_NoRevert ==
    [][(lastQ'.job_id \in everTerminal) => lastQ'.status \notin {"Pending", "Running"}]_vars

\* C6: after a call that found the job in a source, the stored record of the
\* job holds the observed state, exit code, reason and timestamps.
C6_QueryWritesBack ==
    (Queried /\ ~ReportsNotFound) =>
        LET d == lastQ.detail.v IN
        /\ Stored.t = "JobInfo"
        /\ Stored.v.state = d.state
        /\ Stored.v.start_time = d.start_time
        /\ Stored.v.end_time = d.end_time
        /\ ("exit_code" \in DOMAIN d =>
               /\ Stored.v.exit_code = d.exit_code
               /\ Stored.v.reason = d.reason
               /\ Stored.v.elapsed_time = d.elapsed_time)

\* C7: with no live entry and the historical line FAILED, exit code 9, reason
\* OUT_OF_MEMORY, the status is Error and the stored record has exit code 9.
C7_OutOfMemoryScenario ==
    (Queried /\ SourceEmpty(lastQ.sq)
        /\ lastQ.sa = Done(0, << SacctLine(lastQ.job_id, "FAILED", <<"9", ":", "0">>,
                                           <<"OUT_OF_MEMORY">>) >>)) =>
        /\ lastQ.status = "Error"
        /\ Stored.t = "JobInfo"
        /\ Stored.v.exit_code = PyInt(9)

\* C8 as claimed: a live entry yields Pending for PENDING and CONFIGURING,
\* Running for RUNNING and STAGE_OUT, and Error for every other state.
C8_LiveOtherIsError ==
    (Queried /\ LiveLine(lastQ.sq)) =>
        LET st == lastQ.sq.stdout[2] IN
        lastQ.status = IF st \in {"PENDING", "CONFIGURING"} THEN "Pending"
                       ELSE IF st \in {"RUNNING", "STAGE_OUT"} THEN "Running"
                       ELSE "Error"

\* C8 as amended: a live entry yields Pending for PENDING and CONFIGURING,
\* Running for RUNNING and STAGE_OUT, Completed for COMPLETED, Cancelled for
\* CANCELLED and CANCELLED+, Failed for FAILED and NODE_FAIL, and Error for
\* every other state.
C8_LiveMapping ==
    (Queried /\ LiveLine(lastQ.sq)) =>
        LET st == lastQ.sq.stdout[2] IN
        lastQ.status = IF st \in {"PENDING", "CONFIGURING"} THEN "Pending"
                       ELSE IF st \in {"RUNNING", "STAGE_OUT"} THEN "Running"
                       ELSE IF st = "COMPLETED" THEN "Completed successfully"
                       ELSE IF st \in {"CANCELLED", "CANCELLED+"} THEN "Cancelled"
                       ELSE IF st \in {"FAILED", "NODE_FAIL"} THEN "Failed"
                       ELSE "Error"

C8_Witness ==
    /\ Queried /\ LiveLine(lastQ.sq) /\ lastQ.sq.stdout[2] = "COMPLETED"
    /\ lastQ.status = "Completed successfully"

\* C9: with no live entry, historical CANCELLED or CANCELLED+ yields TimedOut
\* if the reason holds the time-limit marker and Cancelled otherwise;
\* historical FAILED or NODE_FAIL yields TimedOut if the reason holds the
\* marker and Failed otherwise.
C9_CancelledAndFailed ==
    (Queried /\ ~LiveLine(lastQ.sq) /\ HistLine(lastQ.sa)) =>
        /\ (HistState \in {"CANCELLED", "CANCELLED+"} =>
               lastQ.status = IF HasToken(HistReason, "TIME_LIMIT")
                              THEN "Timed out" ELSE "Cancelled")
        /\ (HistState \in {"FAILED", "NODE_FAIL"} =>
               lastQ.status = IF HasToken(HistReason, "TIME_LIMIT")
                              THEN "Timed out" ELSE "Failed")

C9_Witness ==
    /\ Queried /\ SourceEmpty(lastQ.sq) /\ HistLine(lastQ.sa)
    /\ HistState = "CANCELLED+"
    /\ HistReason = <<"JOB_", "TIME_LIMIT", "_EXCEEDED">>
    /\ lastQ.status = "Timed out"

Saved == lastPut.t = "JobInfo"

C12_StoreResilience ==
    /\ jobs_file.kind \in {"malformed", "undecodable"} =>
           \A job_id \in JobIds : get_job_by_id(jobs_file, job_id) = PyNone
    /\ (lastPut # PyNone /\ before.kind \in {"malformed", "undecodable"}) =>
           /\ Saved
           /\ Keys(jobs_file) = {lastPut.v.job_id.v}
           /\ get_job_by_id(jobs_file, lastPut.v.job_id.v) = lastPut

\* C13: when two tasks have each finished a save_job_info call, for different
\* job ids, the file holds the records of both.
C13_NoLostUpdate ==
    (/\ \A t \in Tasks : task[t].pc = "done"
     /\ task["t1"].job_info.job_id # task["t2"].job_info.job_id) =>
        \A t \in Tasks :
            LET got == get_job_by_id(jobs_file, task[t].job_info.job_id.v)
            IN  got.t = "JobInfo" /\ got.v = task[t].job_info

\* C14: when the only save_job_info call made ends in a crash or in a failed
\* write, every record the file held under another job id when the call
\* began is still in the file, unchanged.
C14_CrashSafe ==
    \A t \in Tasks :
        (/\ task[t].pc \in {"crashed", "warned"}
         /\ \A u \in Tasks \ {t} : task[u].pc = "idle") =>
            \A k \in DOMAIN task[t].jobs \ {task[t].job_info.job_id.v} :
                /\ k \in Keys(jobs_file)
                /\ ExistingJobs(jobs_file)[k] = task[t].jobs[k]

\* a submit_slurm_job call has ended
Submitted == lastS.submitted

\* the call returned a job id
ReturnedId == lastS.result.t = "str"

\* the call ended without a job id: it returned None or raised
SubmitFailed == lastS.result.t \in {"none", "raise"}

\* the step was taken by the call
Took(step) == \E i \in 1..Len(lastS.calls) : lastS.calls[i] = step

\* the request of the scenario: tool freesurfer, dataset ds001, participant
\* 01, wall time 4:00:00, memory 16G, no GPU; probe, mkdir and copy succeed and
\* sbatch prints "Submitted batch job 55821"
ScenarioSubmit ==
    /\ lastS.tool = "freesurfer" /\ lastS.args = BaseArgs
    /\ lastS.probe = Done(0, <<"connected">>)

\* C15: a submit_slurm_job call that returns a job id leaves in the store a
\* record for that id with state UNKNOWN; the scenario request returns
\* "55821" and, on an empty store, leaves that record as the only one.
C15_SubmitRecords ==
    Submitted =>
        /\ ReturnedId =>
               LET got == get_job_by_id(jobs_file, lastS.result.v)
               IN  got.t = "JobInfo" /\ got.v.state = PyStr("UNKNOWN")
        /\ ScenarioSubmit => lastS.result = PyStr("55821")

\* C16: a submit_slurm_job call that ends without a job id leaves the store
\* file as it was.
C16_FailedSubmitKeepsStore ==
    [][(lastS' # lastS /\ lastS'.result.t \in {"none", "raise"})
          => jobs_file' = jobs_file]_vars

C16_Witness ==
    /\ Submitted /\ SubmitFailed /\ lastS.calls = SubmitSteps
    /\ lastS.sbatch = Done(0, << <<"Submitted", "batch", "job", "abc">> >>)
    /\ Keys(jobs_file) = {"55800"}

\* the command ran and ended with return code 0
Succeeded(run) == run.kind = "done" /\ run.returncode = 0

\* C17: the steps a submit_slurm_job call takes are an initial part of
\* validate, probe, render, mkdir, copy, sbatch, each taken only if the one
\* before it succeeded; when the probe fails, no mkdir, no copy and no sbatch
\* command is issued.
C17_StepOrder ==
    Submitted =>
        /\ lastS.calls = SubSeq(SubmitSteps, 1, Len(lastS.calls))
        /\ Took("probe") =>
               (lastS.args.slurm_user # PyNone /\ lastS.args.slurm_apptainer_dir # PyNone)
        /\ Took("render") =>
               (Succeeded(lastS.probe) /\ lastS.probe.stdout = <<"connected">>)
        /\ Took("mkdir") => lastS.script.t = "script"
        /\ Took("copy") => Succeeded(lastS.mkdir)
        /\ Took("sbatch") => Succeeded(lastS.scp)
        /\ (Took("probe") /\ ~Succeeded(lastS.probe)) =>
               /\ lastS.mkdir = NotRun /\ lastS.scp = NotRun /\ lastS.sbatch = NotRun
               /\ lastS.calls = <<"validate", "probe">>
               /\ lastS.result = PyNone

C17_Witness ==
    /\ Submitted /\ lastS.tool = "meld_graph" /\ lastS.args = BaseArgs
    /\ lastS.probe = Done(255, << >>)
    /\ lastS.calls = <<"validate", "probe">> /\ lastS.mkdir = NotRun

\* the output is one line: "Submitted batch job" and then a numeric job id
WellShaped(out) ==
    /\ Len(out) = 1 /\ Len(out[1]) = 4
    /\ SubSeq(out[1], 1, 3) = <<"Submitted", "batch", "job">>
    /\ out[1][4] \in {"55821", "55822"}

\* C18: a submit_slurm_job call whose sbatch command ran returns a job id
\* exactly if the output is one line of the fixed phrase followed by a numeric
\* id as the last token, and then returns that token.
C18_ParseIff ==
    (Submitted /\ Succeeded(lastS.sbatch)) =>
        /\ ReturnedId <=> WellShaped(lastS.sbatch.stdout)
        /\ ReturnedId => lastS.result.v = lastS.sbatch.stdout[1][4]

\* the causes of a failed submission
FailedProbe == Took("probe") /\ ~Succeeded(lastS.probe)
FailedTransport ==
    \/ (Took("mkdir") /\ ~Succeeded(lastS.mkdir))
    \/ (Took("copy") /\ ~Succeeded(lastS.scp))
    \/ (Took("sbatch") /\ ~Succeeded(lastS.sbatch))
FailedParse == Succeeded(lastS.sbatch) /\ ~WellShaped(lastS.sbatch.stdout)

\* what the caller can tell a result by
Cause(result) ==
    IF result = PyNone THEN "None"
    ELSE IF result.t = "raise" THEN result.v
    ELSE IF result.t = "blocked" THEN "blocked"
    ELSE "id"

\* C19: the result of a failed submit_slurm_job call tells a failed probe, a
\* failed remote command or copy, and an unparseable sbatch output apart.
C19_DistinctCauses ==
    Submitted =>
        /\ FailedProbe => Cause(lastS.result) \notin {"id", "None"}
        /\ FailedTransport => Cause(lastS.result) \notin {"id", "None"}
        /\ (FailedParse /\ ~ReturnedId) => Cause(lastS.result) \notin {"id", "None"}

\* C20: a submit_slurm_job call for a request without wall time or without
\* memory raises at validation, takes no other step, and renders no script.
C20_MissingResourceRejected ==
    (Submitted /\ (lastS.args.slurm_time = PyNone \/ lastS.args.slurm_mem = PyNone)) =>
        /\ lastS.result.t = "raise"
        /\ lastS.calls = <<"validate">>
        /\ lastS.probe = NotRun /\ lastS.mkdir = NotRun
        /\ lastS.script = PyNone

\* a script was rendered
Rendered == rendered.script.t = "script"

\* the lines of the rendered header that set the option
Lines(opt) ==
    {n \in 1..Len(rendered.script.v) : rendered.script.v[n][1] = opt}

\* the GPU count of the request: none with --no-gpu, else the count given
GpuCount == IF rendered.args.no_gpu THEN 0 ELSE rendered.args.slurm_gpus.v

\* C21: a script rendered for GPU count 0 has no --gres=gpu line; one
\* rendered for a GPU count above 0 has exactly one, with that count.
C21_GpuDirective ==
    Rendered =>
        /\ GpuCount = 0 => Lines("--gres") = {}
        /\ GpuCount > 0 =>
               /\ Cardinality(Lines("--gres")) = 1
               /\ \A n \in Lines("--gres") :
                      rendered.script.v[n][2] = <<"gpu", ToString(GpuCount)>>

\* C22: a script rendered for a request without partition has no
\* --partition line; one rendered for a request with a partition has
\* exactly one, whose value is that partition.
C22_PartitionDirective ==
    Rendered =>
        /\ rendered.args.slurm_partition \in {PyNone, PyStr("")} =>
               Lines("--partition") = {}
        /\ rendered.args.slurm_partition \notin {PyNone, PyStr("")} =>
               /\ Cardinality(Lines("--partition")) = 1
               /\ \A n \in Lines("--partition") :
                      rendered.script.v[n][2] = rendered.args.slurm_partition.v

C22_Witness ==
    /\ Rendered /\ rendered.args.slurm_partition = PyStr("gpu")
    /\ rendered.script.v[2] = <<"--partition", "gpu">>
    /\ ~rendered.args.no_gpu

\* C26: a submit_slurm_job call that got to its remote commands ends with a
\* value (a job id or None), whatever the commands do, and a
\* check_job_status call ends with a status.
C26_AlwaysReturns ==
    /\ (Submitted /\ Took("mkdir")) => lastS.result.t \in {"str", "none"}
    /\ Queried => lastQ.status \in {"Pending", "Running", "Completed successfully",
                                    "Failed", "Timed out", "Cancelled", "Error"}

\* the historical states that step 3 of the derivation names
NamedHistStates == {"COMPLETED", "CANCELLED", "CANCELLED+", "FAILED", "NODE_FAIL"}

\* C27 as claimed: with no live entry, every historical state other than
\* COMPLETED, CANCELLED, CANCELLED+, FAILED and NODE_FAIL yields Error.
C27_OtherHistoricalIsError ==
    (Queried /\ SourceEmpty(lastQ.sq) /\ HistLine(lastQ.sa)
        /\ HistState \notin NamedHistStates) =>
        lastQ.status = "Error"

\* C27 as amended: with no live entry, a historical state other than
\* COMPLETED, CANCELLED, CANCELLED+, FAILED and NODE_FAIL yields Pending for
\* PENDING and CONFIGURING, Running for RUNNING and STAGE_OUT, and Error for
\* every other state, TIMEOUT and OUT_OF_MEMORY included.
C27_HistoricalMapping ==
    (Queried /\ ~LiveLine(lastQ.sq) /\ HistLine(lastQ.sa)
        /\ HistState \notin NamedHistStates) =>
        lastQ.status = IF HistState \in {"PENDING", "CONFIGURING"} THEN "Pending"
                       ELSE IF HistState \in {"RUNNING", "STAGE_OUT"} THEN "Running"
                       ELSE "Error"

C27_Witness ==
    /\ Queried /\ SourceEmpty(lastQ.sq) /\ HistLine(lastQ.sa)
    /\ HistState = "TIMEOUT" /\ lastQ.status = "Error"
    /\ lastQ.calls = <<"squeue", "sacct">>

\* C28: the status a check_job_status call returns for a historical entry
\* equals JobInfo.status_category of a record with the state, exit code and
\* reason of that entry.
C28_DerivationsAgree ==
    (Queried /\ ~LiveLine(lastQ.sq) /\ HistLine(lastQ.sa)) =>
        lastQ.status = status_category([state |-> lastQ.detail.v.state,
                                        exit_code |-> lastQ.detail.v.exit_code,
                                        reason |-> lastQ.detail.v.reason])

PollNotFound ==
    /\ mon.run.kind = "done" /\ mon.run.returncode \in {0, 1}
    /\ Len(mon.run.stdout) <= 1

\* monitor_job returned from the loop, not from the interrupt handler
ReturnedByLoop == mon.pc = "returned" /\ ~mon.cancelled

\* C23: only a poll that finds the job absent from the queue ends the loop on
\* its own; a poll that fails in any other way (timeout, connection failure,
\* unparseable output) does not make monitor_job return.
C23_OnlyNotFoundEndsLoop == ReturnedByLoop => PollNotFound

\* C24: once the job has left the live queue, monitor_job reports success
\* (True) only if the job completed successfully, not when it failed, timed
\* out or was cancelled.
C24_SuccessOnlyIfCompleted ==
    (ReturnedByLoop /\ ~mon.inQueue /\ mon.run = Done(0, <<SqueueHeader>>)
        /\ mon.result = "True")
    => mon.outcome = "COMPLETED"

C30_MonitorProgress ==
    /\ [][(mon'.pc = "returned" /\ mon.pc # "returned" /\ ~mon'.cancelled)
              => (mon.pc = "poll" /\ mon'.polls >= 1 /\ mon'.status = PyNone)]_vars
    /\ [][(mon'.cmds # mon.cmds)
              => (mon.pc = "poll" /\ mon'.cmds = mon.cmds \cup {"squeue"})]_vars
    /\ [][(mon.status # PyNone /\ mon.pc = "sleep" /\ ~mon'.cancelled)
              => mon'.pc \in {"sleep", "poll"}]_vars
    /\ (mon.pc # "none" /\ ~mon.inQueue) ~> (mon.pc = "returned")

C30_Witness ==
    /\ ReturnedByLoop /\ ~mon.inQueue /\ mon.polls >= 2
    /\ mon.run = Done(0, <<SqueueHeader>>) /\ mon.result = "True"

=============================================================================
